---- MODULE Spec2Model ----
(***************************************************************************)
(* A model of the image-similarity grouping subsystem of openadapt/vision: *)
(* get_size_similarity, get_similar_image_idxs and refine_masks with the   *)
(* filters it calls.                                                       *)
(*                                                                         *)
(* Floating-point numbers are exact rationals <<num, den>> with den > 0;   *)
(* math.nan is the pair <<0, 0>>.  Every comparison with NaN is false, as  *)
(* in Python.                                                              *)
(***************************************************************************)
EXTENDS Integers, Sequences, FiniteSets, TLC

VARIABLES
    \* get_similar_image_idxs
    images, min_ssim, size_similarity_threshold, short_circuit_ssim,
    ssim_matrix, size_similarity_matrix, already_compared, similar_groups,
    current_group, not_grouped_indices, i, j, pc, error, computed,
    ssim_answers,
    \* get_size_similarity called on its own
    img1, img2, size_sim, sz_pc,
    \* refine_masks
    shape, input_masks, masks, filled_masks, size_filtered_masks,
    refined_masks, rf_pc,
    \* the mask functions called on their own
    original_image, bounding_boxes, centroids, masked_images, fn_pc,
    \* get_masks_from_segmented_image
    segmented_image, seg_masks, seg_pc,
    \* a second run on the same input
    run, first_result,
    \* db.crud: acquire_db_lock and release_db_lock in each process
    lock_file, lk_pc,
    \* db.crud: filter_stop_sequences
    action_events, recorded_events, st_pc,
    \* chrome_extension.browser: main
    stdin, stdin_read, message, stdout, sent, conn_closed, br_pc,
    \* openadapt.db.crud, openadapt.crud: _insert
    buffer, executed, insert_calls,
    \* openadapt.adapters.openai: get_completion
    api_retries, api_final, memory, payload, response, depth, content,
    prompts, oa_pc

simVars == <<images, min_ssim, size_similarity_threshold, short_circuit_ssim,
             ssim_matrix, size_similarity_matrix, already_compared,
             similar_groups, current_group, not_grouped_indices, i, j, pc,
             error, computed, ssim_answers>>
szVars == <<img1, img2, size_sim, sz_pc>>
rfVars == <<shape, input_masks, masks, filled_masks, size_filtered_masks,
            refined_masks, rf_pc>>
fnVars == <<original_image, bounding_boxes, centroids, masked_images, fn_pc>>
segVars == <<segmented_image, seg_masks, seg_pc>>
runVars == <<run, first_result>>
visionVars == <<simVars, szVars, rfVars, fnVars, segVars, runVars>>
lockVars == <<lock_file, lk_pc>>
\* the state outside openadapt/vision
stopVars == <<action_events, recorded_events, st_pc>>
brVars == <<stdin, stdin_read, message, stdout, sent, conn_closed, br_pc>>
insVars == <<buffer, executed, insert_calls>>
oaVars == <<api_retries, api_final, memory, payload, response, depth,
           content, prompts, oa_pc>>
lockOthers == <<stopVars, brVars, insVars, oaVars>>
stopOthers == <<lockVars, brVars, insVars, oaVars>>
brOthers == <<lockVars, stopVars, insVars, oaVars>>
insOthers == <<lockVars, stopVars, brVars, oaVars>>
oaOthers == <<lockVars, stopVars, brVars, insVars>>
extVars == <<lockVars, stopVars, brVars, insVars, oaVars>>
vars == <<visionVars, extVars>>

----------------------------------------------------------------------------
(* Bounds of the model. *)

MaxImages == 3
MaxDim == 5
MaxMasks == 2
MaxProcs == 3
MaxEvents == 3
MaxMessages == 3
MaxCalls == 3
MaxRetries == 2
MaxPrompts == 2
RecursionLimit == 3

----------------------------------------------------------------------------
(* Floats. *)

NaN == <<0, 0>>
IsNaN(x) == x[2] = 0
F(n) == <<n, 1>>
FDiv(a, b) == <<a, b>>
FGeq(x, y) == ~IsNaN(x) /\ ~IsNaN(y) /\ x[1] * y[2] >= y[1] * x[2]
FLt(x, y) == ~IsNaN(x) /\ ~IsNaN(y) /\ x[1] * y[2] < y[1] * x[2]
FEq(x, y) == ~IsNaN(x) /\ ~IsNaN(y) /\ x[1] * y[2] = y[1] * x[2]
FAdd(x, y) == <<x[1] * y[2] + y[1] * x[2], x[2] * y[2]>>
FHalf(x) == <<x[1], 2 * x[2]>>
\* Python's min(a, b): b when b < a, else a
FMin(a, b) == IF FLt(b, a) THEN b ELSE a

----------------------------------------------------------------------------
(* get_size_similarity: an image is <<width, height>> (PIL's img.size). *)

get_size_similarity_NoMin(a, b) ==
    LET width_ratio == FDiv(a[1], b[1])
        height_ratio == FDiv(a[2], b[2])
    IN FHalf(FAdd(width_ratio, height_ratio))

get_size_similarity(a, b) ==
    LET width1 == a[1]
        height1 == a[2]
        width2 == b[1]
        height2 == b[2]
        width_ratio == FMin(FDiv(width1, width2), FDiv(width2, width1))
        height_ratio == FMin(FDiv(height1, height2), FDiv(height2, height1))
    IN FHalf(FAdd(width_ratio, height_ratio))

Dims == 1..MaxDim
Sizes == Dims \X Dims

SzIdle == img1 = <<1, 1>> /\ img2 = <<1, 1>> /\ size_sim = NaN /\ sz_pc = "idle"

SzInit == img1 \in Sizes /\ img2 \in Sizes /\ size_sim = NaN /\ sz_pc = "call"

CallSizeSimilarity ==
    /\ sz_pc = "call"
    /\ size_sim' = get_size_similarity(img1, img2)
    /\ sz_pc' = "done"
    /\ UNCHANGED <<extVars, simVars, rfVars, fnVars, segVars, runVars, img1,
                   img2>>

----------------------------------------------------------------------------
(* get_similar_image_idxs *)

ImageSizes == {<<20, 20>>, <<20, 19>>, <<5, 5>>}
MinSsimValues == {<<-2, 1>>, <<95, 100>>, <<2, 1>>}
ThresholdValues == {<<-1, 2>>, <<9, 10>>, <<3, 2>>}
\* what get_image_similarity may return: a mean SSIM, in [-1, 1]
SsimValues == {<<-1, 2>>, <<1, 1>>}

num_images == Len(images)
all_indices == 0..(num_images - 1)
\* a matrix allocated with one row and column at least
ZeroMatrix_AtLeastOne(n) ==
    LET d == IF n = 0 THEN 1 ELSE n
    IN [a \in 0..(d - 1) |-> [b \in 0..(d - 1) |-> F(0)]]
\* line 484-485: [[0.0] * num_images for _ in range(num_images)]
ZeroMatrix(n) == [a \in 0..(n - 1) |-> [b \in 0..(n - 1) |-> F(0)]]
Set2(m, a, b, v) == [m EXCEPT ![a] = [@ EXCEPT ![b] = v]]
SetBoth(m, a, b, v) == Set2(Set2(m, a, b, v), b, a, v)
SetUpperOnly(m, a, b, v) == Set2(m, a, b, v)
\* the whole row a written, and the cell [b][a]
WritePair_WholeRow(m, a, b, v) ==
    [m EXCEPT ![a] = [c \in DOMAIN @ |-> v], ![b] = [@ EXCEPT ![a] = v]]
\* line 493, 497, 499: m[a][b] = m[b][a] = v
WritePair(m, a, b, v) == SetBoth(m, a, b, v)
WriteDiagSkipped(m, a) == m
\* line 489-490: m[a][a] = 1.0
WriteDiag(m, a) == Set2(m, a, a, F(1))

SimIdle ==
    /\ images = <<>> /\ min_ssim = F(0) /\ size_similarity_threshold = F(0)
    /\ short_circuit_ssim = TRUE
    /\ ssim_matrix = ZeroMatrix(0) /\ size_similarity_matrix = ZeroMatrix(0)
    /\ already_compared = {} /\ similar_groups = <<>> /\ current_group = <<>>
    /\ not_grouped_indices = <<>> /\ i = 0 /\ j = 0 /\ pc = "idle"
    /\ error = "none" /\ computed = {} /\ ssim_answers = {}

SimInit ==
    /\ \E n \in 0..MaxImages : images \in [1..n -> ImageSizes]
    /\ min_ssim \in MinSsimValues
    /\ size_similarity_threshold \in ThresholdValues
    /\ short_circuit_ssim \in BOOLEAN
    /\ ssim_matrix = ZeroMatrix(Len(images))
    /\ size_similarity_matrix = ZeroMatrix(Len(images))
    /\ already_compared = {} /\ similar_groups = <<>> /\ current_group = <<>>
    /\ not_grouped_indices = <<>> /\ i = 0 /\ j = 0 /\ pc = "diag"
    /\ error = "none" /\ computed = {} /\ ssim_answers = {}

ShouldComputeNoFlag(size) == FGeq(size, size_similarity_threshold)
\* line 495: get_image_similarity is called for the pair; the score it
\* returns is an input of the model
ShouldCompute(size) ==
    ~short_circuit_ssim \/ FGeq(size, size_similarity_threshold)

\* get_image_similarity is a function of the two images: asked again about
\* a pair of the same call arguments it gives the score it gave before
SsimAnswers_Fresh(a, b) == SsimValues
SsimAnswers(a, b) ==
    IF \E t \in ssim_answers : t[1] = a /\ t[2] = b
    THEN {t[3] : t \in {u \in ssim_answers : u[1] = a /\ u[2] = b}}
    ELSE SsimValues

\* line 488-490: the diagonal of row i
MatrixDiag ==
    /\ pc = "diag" /\ i < num_images
    /\ ssim_matrix' = WriteDiag(ssim_matrix, i)
    /\ size_similarity_matrix' = WriteDiag(size_similarity_matrix, i)
    /\ j' = i + 1
    /\ pc' = "pair"
    /\ UNCHANGED <<extVars, szVars, rfVars, fnVars, segVars, runVars,
                   ssim_answers, images, min_ssim, size_similarity_threshold,
                   short_circuit_ssim, already_compared, similar_groups,
                   current_group, not_grouped_indices, i, error, computed>>

\* line 491-499: one pair (i, j), j > i
MatrixPair ==
    /\ pc = "pair" /\ j < num_images
    /\ LET size == get_size_similarity(images[i + 1], images[j + 1]) IN
        /\ size_similarity_matrix' = WritePair(size_similarity_matrix, i, j, size)
        /\ IF ShouldCompute(size)
           THEN /\ \E s_ssim \in SsimAnswers(i, j) :
                       /\ ssim_matrix' = WritePair(ssim_matrix, i, j, s_ssim)
                       /\ ssim_answers' = ssim_answers \cup {<<i, j, s_ssim>>}
                /\ computed' = computed \cup {<<i, j>>}
           ELSE /\ ssim_matrix' = WritePair(ssim_matrix, i, j, NaN)
                /\ UNCHANGED <<computed, ssim_answers>>
    /\ j' = j + 1
    /\ UNCHANGED <<extVars, szVars, rfVars, fnVars, segVars, runVars, images,
                   min_ssim, size_similarity_threshold, short_circuit_ssim,
                   already_compared, similar_groups, current_group,
                   not_grouped_indices, i, pc, error>>

\* the inner loop of line 491 is exhausted
MatrixNextRow ==
    /\ pc = "pair" /\ j >= num_images
    /\ i' = i + 1
    /\ pc' = "diag"
    /\ UNCHANGED <<extVars, szVars, rfVars, fnVars, segVars, runVars,
                   ssim_answers, images, min_ssim, size_similarity_threshold,
                   short_circuit_ssim, ssim_matrix, size_similarity_matrix,
                   already_compared, similar_groups, current_group,
                   not_grouped_indices, j, error, computed>>

\* the loop of line 488 is exhausted: the grouping pass starts
MatrixDone ==
    /\ pc = "diag" /\ i >= num_images
    /\ i' = 0
    /\ pc' = "seed"
    /\ UNCHANGED <<extVars, szVars, rfVars, fnVars, segVars, runVars,
                   ssim_answers, images, min_ssim, size_similarity_threshold,
                   short_circuit_ssim, ssim_matrix, size_similarity_matrix,
                   already_compared, similar_groups, current_group,
                   not_grouped_indices, j, error, computed>>

\* line 501-505: the next seed
GroupSeed ==
    /\ pc = "seed" /\ i < num_images
    /\ IF i \in already_compared
       THEN /\ i' = i + 1
            /\ UNCHANGED <<current_group, j, pc>>
       ELSE /\ current_group' = <<i>>
            /\ j' = i + 1
            /\ pc' = "scan"
            /\ i' = i
    /\ UNCHANGED <<extVars, szVars, rfVars, fnVars, segVars, runVars,
                   ssim_answers, images, min_ssim, size_similarity_threshold,
                   short_circuit_ssim, ssim_matrix, size_similarity_matrix,
                   already_compared, similar_groups, not_grouped_indices,
                   error, computed>>

\* line 508-511: the condition is
\*     ssim_matrix[i][j] >= min_ssim and
\*     size_similarity_matrix[i][j] >= size_similarity_thresholdi
\* size_similarity_thresholdi is bound nowhere, so evaluating the second
\* operand raises NameError; `and` evaluates it only when the first is true.
SsimTestReversed(a, b) == FGeq(min_ssim, ssim_matrix[a][b])
SsimTest(a, b) == FGeq(ssim_matrix[a][b], min_ssim)
GroupTest(a, b) == IF SsimTest(a, b) THEN "NameError" ELSE "False"

\* line 505-513: one candidate j for the seed i
GroupScan ==
    /\ pc = "scan" /\ j < num_images
    /\ IF j \in already_compared
       THEN /\ j' = j + 1
            /\ UNCHANGED <<current_group, already_compared, pc, error>>
       ELSE LET t == GroupTest(i, j) IN
            CASE t = "NameError" ->
                    /\ pc' = "raised"
                    /\ error' = "NameError"
                    /\ UNCHANGED <<current_group, already_compared, j>>
              [] t = "True" ->
                    /\ current_group' = Append(current_group, j)
                    /\ already_compared' = already_compared \cup {j}
                    /\ j' = j + 1
                    /\ UNCHANGED <<pc, error>>
              [] OTHER ->
                    /\ j' = j + 1
                    /\ UNCHANGED <<current_group, already_compared, pc, error>>
    /\ UNCHANGED <<extVars, szVars, rfVars, fnVars, segVars, runVars,
                   ssim_answers, images, min_ssim, size_similarity_threshold,
                   short_circuit_ssim, ssim_matrix, size_similarity_matrix,
                   similar_groups, not_grouped_indices, i, computed>>

\* line 515-517: the seed's scan is over
\* every candidate group recorded, the seed alone too
RecordGroup_Always(groups, group) == Append(groups, group)
\* line 515-516
RecordGroup(groups, group) ==
    IF Len(group) > 1 THEN Append(groups, group) ELSE groups

GroupClose ==
    /\ pc = "scan" /\ j >= num_images
    /\ similar_groups' = RecordGroup(similar_groups, current_group)
    /\ already_compared' = already_compared \cup {i}
    /\ i' = i + 1
    /\ pc' = "seed"
    /\ UNCHANGED <<extVars, szVars, rfVars, fnVars, segVars, runVars,
                   ssim_answers, images, min_ssim, size_similarity_threshold,
                   short_circuit_ssim, ssim_matrix, size_similarity_matrix,
                   current_group, not_grouped_indices, j, error, computed>>

RECURSIVE SortedSeq(_)
\* list(set) of small non-negative ints: ascending
SortedSeq(S) ==
    IF S = {} THEN <<>>
    ELSE LET m == CHOOSE x \in S : \A y \in S : x <= y
         IN <<m>> \o SortedSeq(S \ {m})

\* line 519-521
Return ==
    /\ pc = "seed" /\ i >= num_images
    /\ not_grouped_indices' = SortedSeq(all_indices \ already_compared)
    /\ pc' = "returned"
    /\ UNCHANGED <<extVars, szVars, rfVars, fnVars, segVars, runVars,
                   ssim_answers, images, min_ssim, size_similarity_threshold,
                   short_circuit_ssim, ssim_matrix, size_similarity_matrix,
                   already_compared, similar_groups, current_group, i, j,
                   error, computed>>

SimNext ==
    \/ MatrixDiag \/ MatrixPair \/ MatrixNextRow \/ MatrixDone
    \/ GroupSeed \/ GroupScan \/ GroupClose \/ Return

----------------------------------------------------------------------------
(* refine_masks and its filters.  A mask is the set of its "on" pixels      *)
(* <<row, col>> in an array of shape <<rows, cols>>.                        *)

min_mask_height == 15
min_mask_width == 15
threshold_percent == 5
kernel_size == 3
iterations == 5

Rows == 0..(shape[1] - 1)
Cols == 0..(shape[2] - 1)
InImage(r, c) == r \in Rows /\ c \in Cols
Rect(top, left, h, w) == (top..(top + h - 1)) \X (left..(left + w - 1))

SetMin(S) == CHOOSE x \in S : \A y \in S : x <= y
SetMax(S) == CHOOSE x \in S : \A y \in S : x >= y
OnRows(m) == {p[1] : p \in m}
OnCols(m) == {p[2] : p \in m}

\* every band at least one pixel deep
is_close_to_all_borders_MinOne(m) ==
    LET t_rows == (shape[1] * threshold_percent) \div 100
        t_cols == (shape[2] * threshold_percent) \div 100
        threshold_rows == IF t_rows = 0 THEN 1 ELSE t_rows
        threshold_cols == IF t_cols = 0 THEN 1 ELSE t_cols
    IN /\ \E p \in m : p[1] < threshold_rows
       /\ \E p \in m : p[1] >= shape[1] - threshold_rows
       /\ \E p \in m : p[2] < threshold_cols
       /\ \E p \in m : p[2] >= shape[2] - threshold_cols

\* remove_border_masks.is_close_to_all_borders: mask[:t], mask[-t:] with
\* t = int(dim * threshold_percent / 100); mask[:0] is empty and mask[-0:]
\* is the whole array
is_close_to_all_borders(m) ==
    LET threshold_rows == (shape[1] * threshold_percent) \div 100
        threshold_cols == (shape[2] * threshold_percent) \div 100
        top == \E p \in m : p[1] < threshold_rows
        bottom == \E p \in m :
                      threshold_rows = 0 \/ p[1] >= shape[1] - threshold_rows
        left == \E p \in m : p[2] < threshold_cols
        right == \E p \in m :
                     threshold_cols = 0 \/ p[2] >= shape[2] - threshold_cols
    IN top /\ bottom /\ left /\ right

remove_border_masks_KeepAll(ms) == ms
remove_border_masks(ms) == SelectSeq(ms, LAMBDA m : ~is_close_to_all_borders(m))

\* the kernel_size x kernel_size structuring element, anchored at its centre
KernelOffsets ==
    LET a == kernel_size \div 2
    IN ((0 - a)..(kernel_size - 1 - a)) \X ((0 - a)..(kernel_size - 1 - a))

\* cv2.erode, one pass: pixels beyond the array count as on
Erode1(m) ==
    {p \in m : \A d \in KernelOffsets :
        InImage(p[1] + d[1], p[2] + d[2]) => <<p[1] + d[1], p[2] + d[2]>> \in m}

\* cv2.dilate, one pass: pixels beyond the array count as off
Dilate1(m) ==
    {q \in UNION {{<<p[1] + d[1], p[2] + d[2]>> : d \in KernelOffsets} : p \in m} :
        InImage(q[1], q[2])}

RECURSIVE Erode(_, _)
Erode(m, n) == IF n = 0 \/ m = {} THEN m ELSE Erode(Erode1(m), n - 1)
RECURSIVE Dilate(_, _)
Dilate(m, n) == IF n = 0 \/ m = {} THEN m ELSE Dilate(Dilate1(m), n - 1)

\* the opened masks appended after the eroded ones
filter_thin_ragged_masks_AppendBoth(ms) ==
    [k \in 1..Len(ms) |-> Erode(ms[k], iterations)]
        \o [k \in 1..Len(ms) |-> Dilate(Erode(ms[k], iterations), iterations)]
\* filter_thin_ragged_masks: every mask is replaced by its opening
filter_thin_ragged_masks(ms) ==
    [k \in 1..Len(ms) |-> Dilate(Erode(ms[k], iterations), iterations)]

\* scipy's binary_fill_holes: the background that is 4-connected to the
\* outside of the array stays off, the rest of the array is on
Neighbours4(p) ==
    {<<p[1] - 1, p[2]>>, <<p[1] + 1, p[2]>>, <<p[1], p[2] - 1>>, <<p[1], p[2] + 1>>}
RECURSIVE Flood(_, _, _)
Flood(m, reached, frontier) ==
    IF frontier = {} THEN reached
    ELSE LET next == {q \in UNION {Neighbours4(p) : p \in frontier} :
                         /\ InImage(q[1], q[2])
                         /\ q \notin m
                         /\ q \notin reached}
         IN Flood(m, reached \cup next, next)
binary_fill_holes(m) ==
    LET edge == {p \in Rows \X Cols :
                    /\ p \notin m
                    /\ \/ p[1] = 0 \/ p[1] = shape[1] - 1
                       \/ p[2] = 0 \/ p[2] = shape[2] - 1}
    IN (Rows \X Cols) \ Flood(m, edge, edge)

\* filter_masks_by_size: the extent of the on pixels, both ends counted
ExtentOk(m) ==
    /\ m # {}
    /\ SetMax(OnRows(m)) - SetMin(OnRows(m)) + 1 >= min_mask_height
    /\ SetMax(OnCols(m)) - SetMin(OnCols(m)) + 1 >= min_mask_width
filter_masks_by_size(ms) == SelectSeq(ms, ExtentOk)

\* refine_masks, line 109: np.array_equal(mask_i & mask_j, mask_i)
NeverContained(mi, mj) == FALSE
ContainedIn(mi, mj) == (mi \cap mj) = mi
\* refine_masks, line 103-113
RemoveContainedMasks(ms) ==
    LET keep == {a \in 1..Len(ms) :
                    ~\E b \in 1..Len(ms) : a # b /\ ContainedIn(ms[a], ms[b])}
        F_[a \in 0..Len(ms)] ==
            IF a = 0 THEN <<>>
            ELSE IF a \in keep THEN Append(F_[a - 1], ms[a]) ELSE F_[a - 1]
    IN F_[Len(ms)]

\* the extent counted in pixels, both ends included
BoundingBox_Inclusive(m) ==
    LET top == SetMin(OnRows(m))
        left == SetMin(OnCols(m))
    IN [top |-> top, left |-> left,
        height |-> SetMax(OnRows(m)) - top + 1,
        width |-> SetMax(OnCols(m)) - left + 1]
\* calculate_bounding_boxes, line 265-266, for a mask with on pixels
BoundingBox(m) ==
    LET top == SetMin(OnRows(m))
        left == SetMin(OnCols(m))
    IN [top |-> top, left |-> left,
        height |-> SetMax(OnRows(m)) - top,
        width |-> SetMax(OnCols(m)) - left]

ImageShapes == {<<25, 25>>, <<16, 16>>}
\* the masks the calls are tried on, for an array of 25 x 25
MaskShapes ==
    { Rect(0, 0, 25, 25),                    \* the whole frame
      Rect(2, 2, 15, 15),                    \* 15 rows by 15 columns
      Rect(1, 1, 20, 20),                    \* holds the one before
      Rect(8, 8, 16, 16),                    \* overlaps both, in neither
      Rect(5, 5, 14, 18),                    \* 14 rows only
      Rect(3, 3, 1, 18),                     \* a line one pixel thin
      Rect(1, 1, 23, 23) \ {<<12, 12>>},     \* a block with a hole
      Rect(0, 0, 25, 20) \ {<<12, 10>>},     \* on three borders, with a hole
      Rect(2, 2, 15, 15) \cup Rect(8, 17, 1, 6) }  \* a block with a thin tail

\* and for an array of 16 x 16, where 5% is less than a pixel
SmallMaskShapes ==
    { Rect(0, 0, 16, 16),                    \* the whole frame
      Rect(0, 0, 16, 15) }                   \* on three borders
ShapesFor(sh) == IF sh = <<16, 16>> THEN SmallMaskShapes ELSE MaskShapes

RfIdle ==
    /\ shape = <<0, 0>> /\ input_masks = <<>> /\ masks = <<>>
    /\ filled_masks = <<>> /\ size_filtered_masks = <<>>
    /\ refined_masks = <<>> /\ rf_pc = "idle"

RfInit ==
    /\ shape \in ImageShapes
    /\ \E n \in 0..MaxMasks : input_masks \in [1..n -> ShapesFor(shape)]
    /\ masks = input_masks
    /\ filled_masks = <<>> /\ size_filtered_masks = <<>>
    /\ refined_masks = <<>> /\ rf_pc = "border"

\* line 94
RemoveBorder ==
    /\ rf_pc = "border"
    /\ masks' = remove_border_masks(masks)
    /\ rf_pc' = "thin"
    /\ UNCHANGED <<extVars, simVars, szVars, fnVars, segVars, runVars, shape,
                   input_masks, filled_masks, size_filtered_masks,
                   refined_masks>>

\* line 95
FilterThinRagged ==
    /\ rf_pc = "thin"
    /\ masks' = filter_thin_ragged_masks(masks)
    /\ rf_pc' = "fill"
    /\ UNCHANGED <<extVars, simVars, szVars, fnVars, segVars, runVars, shape,
                   input_masks, filled_masks, size_filtered_masks,
                   refined_masks>>

\* line 98
FillHoles ==
    /\ rf_pc = "fill"
    /\ filled_masks' = [k \in 1..Len(masks) |-> binary_fill_holes(masks[k])]
    /\ rf_pc' = "size"
    /\ UNCHANGED <<extVars, simVars, szVars, fnVars, segVars, runVars, shape,
                   input_masks, masks, size_filtered_masks, refined_masks>>

\* line 100
FilterBySize ==
    /\ rf_pc = "size"
    /\ size_filtered_masks' = filter_masks_by_size(filled_masks)
    /\ rf_pc' = "contain"
    /\ UNCHANGED <<extVars, simVars, szVars, fnVars, segVars, runVars, shape,
                   input_masks, masks, filled_masks, refined_masks>>

\* line 102-116
RemoveContained ==
    /\ rf_pc = "contain"
    /\ refined_masks' = RemoveContainedMasks(size_filtered_masks)
    /\ rf_pc' = "returned"
    /\ UNCHANGED <<extVars, simVars, szVars, fnVars, segVars, runVars, shape,
                   input_masks, masks, filled_masks, size_filtered_masks>>

RfNext ==
    \/ RemoveBorder \/ FilterThinRagged \/ FillHoles \/ FilterBySize
    \/ RemoveContained

----------------------------------------------------------------------------
(* The mask functions called on their own: the three filters, refine_masks *)
(* as one call, calculate_bounding_boxes and extract_masked_images.        *)

\* refine_masks, line 94-116, as one call
refine_masks(ms) ==
    LET bordered == remove_border_masks(ms)
        opened == filter_thin_ragged_masks(bordered)
        filled == [k \in 1..Len(opened) |-> binary_fill_holes(opened[k])]
    IN RemoveContainedMasks(filter_masks_by_size(filled))

\* calculate_bounding_boxes, line 259-280: the entries for one mask
EmptyBox == [x \in {} |-> F(0)]
BoxOf(m) ==
    IF m = {} THEN EmptyBox
    ELSE [top |-> F(BoundingBox(m).top), left |-> F(BoundingBox(m).left),
          height |-> F(BoundingBox(m).height),
          width |-> F(BoundingBox(m).width)]
CentroidOf(m) ==
    IF m = {} THEN <<NaN, NaN>>
    ELSE LET b == BoundingBox(m)
         IN <<FAdd(F(b.left), FHalf(F(b.width))),
              FAdd(F(b.top), FHalf(F(b.height)))>>

calculate_bounding_boxes_SkipEmpty(ms) ==
    LET full == SelectSeq(ms, LAMBDA m : m # {})
    IN <<[k \in 1..Len(full) |-> BoxOf(full[k])],
         [k \in 1..Len(full) |-> CentroidOf(full[k])]>>
\* calculate_bounding_boxes, line 254-282
calculate_bounding_boxes(ms) ==
    <<[k \in 1..Len(ms) |-> BoxOf(ms[k])],
      [k \in 1..Len(ms) |-> CentroidOf(ms[k])]>>

\* the original image: one value stands for a pixel's channels
OriginalImages == {"ramp", "dark"}
OriginalPixel(img, p) ==
    IF img = "ramp" THEN 1 + ((p[1] + 2 * p[2]) % 7) ELSE (p[1] + p[2]) % 2

\* extract_masked_images, line 219-232: the image for one mask with on
\* pixels; a[lo : hi] holds the indices lo .. hi - 1
Crop(img, m, rlo, rhi, clo, chi) ==
    [rows |-> rhi - rlo, cols |-> chi - clo,
     px |-> [q \in (0..(rhi - rlo - 1)) \X (0..(chi - clo - 1)) |->
                IF <<q[1] + rlo, q[2] + clo>> \in m
                THEN OriginalPixel(img, <<q[1] + rlo, q[2] + clo>>)
                ELSE 0]]
MaskedImage_HalfOpen(img, m) ==
    Crop(img, m, SetMin(OnRows(m)), SetMax(OnRows(m)),
         SetMin(OnCols(m)), SetMax(OnCols(m)))
MaskedImage(img, m) ==
    LET rmin == SetMin(OnRows(m))
        rmax == SetMax(OnRows(m))
        cmin == SetMin(OnCols(m))
        cmax == SetMax(OnCols(m))
    IN Crop(img, m, rmin, rmax + 1, cmin, cmax + 1)

FnIdle ==
    /\ original_image = "none" /\ bounding_boxes = <<>> /\ centroids = <<>>
    /\ masked_images = <<>> /\ fn_pc = "idle"

\* the lists the calls are tried on: a frame-wide mask, a solid square, a
\* mask one row short of the minimum height, a thin line, a square with a
\* thin tail, and a mask with no on pixel
CallMaskShapes ==
    {Rect(0, 0, 25, 25), Rect(2, 2, 15, 15), Rect(5, 5, 14, 18),
     Rect(3, 3, 1, 18), Rect(2, 2, 15, 15) \cup Rect(8, 17, 1, 6), {}}
\* an array 16 pixels high and 25 wide, with its frame-wide mask
WideShape == <<16, 25>>
WideMaskShapes == {Rect(0, 0, 16, 25), Rect(0, 2, 16, 20), {}}
CallShapesFor(sh) ==
    IF sh = <<16, 16>> THEN SmallMaskShapes \cup {{}}
    ELSE IF sh = WideShape THEN WideMaskShapes
    ELSE CallMaskShapes

FnInit ==
    /\ shape \in ImageShapes \cup {WideShape}
    /\ \E n \in 0..MaxMasks : input_masks \in [1..n -> CallShapesFor(shape)]
    /\ masks = <<>> /\ filled_masks = <<>> /\ size_filtered_masks = <<>>
    /\ refined_masks = <<>> /\ rf_pc = "idle"
    /\ original_image = "none" /\ bounding_boxes = <<>> /\ centroids = <<>>
    /\ masked_images = <<>> /\ fn_pc = "call"

CallRemoveBorderMasks ==
    /\ fn_pc = "call"
    /\ masks' = remove_border_masks(input_masks)
    /\ fn_pc' = "remove_border_masks"
    /\ UNCHANGED <<extVars, simVars, szVars, segVars, runVars, shape,
                   input_masks, filled_masks, size_filtered_masks,
                   refined_masks, rf_pc, original_image, bounding_boxes,
                   centroids, masked_images>>

CallFilterThinRaggedMasks ==
    /\ fn_pc = "call"
    /\ masks' = filter_thin_ragged_masks(input_masks)
    /\ fn_pc' = "filter_thin_ragged_masks"
    /\ UNCHANGED <<extVars, simVars, szVars, segVars, runVars, shape,
                   input_masks, filled_masks, size_filtered_masks,
                   refined_masks, rf_pc, original_image, bounding_boxes,
                   centroids, masked_images>>

CallFilterMasksBySize ==
    /\ fn_pc = "call"
    /\ masks' = filter_masks_by_size(input_masks)
    /\ fn_pc' = "filter_masks_by_size"
    /\ UNCHANGED <<extVars, simVars, szVars, segVars, runVars, shape,
                   input_masks, filled_masks, size_filtered_masks,
                   refined_masks, rf_pc, original_image, bounding_boxes,
                   centroids, masked_images>>

CallRefineMasks ==
    /\ fn_pc = "call"
    /\ refined_masks' = refine_masks(input_masks)
    /\ fn_pc' = "refine_masks"
    /\ UNCHANGED <<extVars, simVars, szVars, segVars, runVars, shape,
                   input_masks, masks, filled_masks, size_filtered_masks,
                   rf_pc, original_image, bounding_boxes, centroids,
                   masked_images>>

CallCalculateBoundingBoxes ==
    /\ fn_pc = "call"
    /\ bounding_boxes' = calculate_bounding_boxes(input_masks)[1]
    /\ centroids' = calculate_bounding_boxes(input_masks)[2]
    /\ fn_pc' = "calculate_bounding_boxes"
    /\ UNCHANGED <<extVars, simVars, szVars, rfVars, segVars, runVars,
                   original_image, masked_images>>

\* line 221-222: np.where(rows)[0][[0, -1]] raises IndexError for a mask with
\* no on pixel, and nothing is returned
CallExtractMaskedImages ==
    /\ fn_pc = "call"
    /\ \E img \in OriginalImages :
          /\ original_image' = img
          /\ IF \E k \in 1..Len(input_masks) : input_masks[k] = {}
             THEN /\ fn_pc' = "extract_masked_images: IndexError"
                  /\ UNCHANGED masked_images
             ELSE /\ masked_images' =
                        [k \in 1..Len(input_masks) |->
                            MaskedImage(img, input_masks[k])]
                  /\ fn_pc' = "extract_masked_images"
    /\ UNCHANGED <<extVars, simVars, szVars, rfVars, segVars, runVars,
                   bounding_boxes, centroids>>

FnNext ==
    \/ CallRemoveBorderMasks \/ CallFilterThinRaggedMasks
    \/ CallFilterMasksBySize \/ CallRefineMasks
    \/ CallCalculateBoundingBoxes \/ CallExtractMaskedImages

----------------------------------------------------------------------------
(* get_masks_from_segmented_image: one mask per colour of the image. *)

\* the arrays tried: rows x columns, with 3 or 4 channels per pixel
SegShapes == {<<1, 3>>, <<2, 2>>}
Colours == {<<0, 0, 0>>, <<255, 0, 0>>, <<0, 0, 255>>}
Alphas == {0, 255}
PixelValues(channels) ==
    IF channels = 4 THEN {Append(c, a) : c \in Colours, a \in Alphas}
    ELSE Colours
SegPixels(img) == (0..(img.shape[1] - 1)) \X (0..(img.shape[2] - 1))

\* line 27-28 left out: the fourth channel stays
DropAlpha_Keep(img) == img
\* line 27-28: segmented_image_np[:, :, :3] when shape[2] == 4
DropAlpha(img) ==
    IF img.shape[3] = 4
    THEN [shape |-> <<img.shape[1], img.shape[2], 3>>,
          px |-> [p \in SegPixels(img) |-> SubSeq(img.px[p], 1, 3)]]
    ELSE img

\* the order np.unique(..., axis=0) returns rows in: lexicographic
LexLess(a, b) ==
    \E k \in 1..Len(a) :
        /\ a[k] < b[k]
        /\ \A h \in 1..(k - 1) : a[h] = b[h]
RECURSIVE SortedColours(_)
SortedColours(S) ==
    IF S = {} THEN <<>>
    ELSE LET least == CHOOSE c \in S : \A d \in S \ {c} : LexLess(c, d)
         IN <<least>> \o SortedColours(S \ {least})

\* line 31-33
unique_colors(img) == SortedColours({img.px[p] : p \in SegPixels(img)})

\* line 23-44
get_masks_from_segmented_image(image) ==
    LET img == DropAlpha(image)
        colors == unique_colors(img)
    IN [k \in 1..Len(colors) |-> {p \in SegPixels(img) : img.px[p] = colors[k]}]

SegIdle ==
    /\ segmented_image = [shape |-> <<0, 0, 3>>, px |-> <<>>]
    /\ seg_masks = <<>> /\ seg_pc = "idle"

SegInit ==
    /\ \E sh \in SegShapes, channels \in {3, 4} :
          \E px \in [(0..(sh[1] - 1)) \X (0..(sh[2] - 1)) -> PixelValues(channels)] :
              segmented_image = [shape |-> <<sh[1], sh[2], channels>>, px |-> px]
    /\ seg_masks = <<>> /\ seg_pc = "call"

GetMasks ==
    /\ seg_pc = "call"
    /\ seg_masks' = get_masks_from_segmented_image(segmented_image)
    /\ seg_pc' = "returned"
    /\ UNCHANGED <<extVars, simVars, szVars, rfVars, fnVars, runVars,
                   segmented_image>>

SegNext == GetMasks

----------------------------------------------------------------------------
(* A second run of get_similar_image_idxs or of refine_masks on the        *)
(* arguments of the first.                                                 *)

NoResult ==
    [outcome |-> "none", error |-> "none", groups |-> <<>>, ungrouped |-> <<>>,
     ssim |-> ZeroMatrix(0), size |-> ZeroMatrix(0), masks |-> <<>>]

RunIdle == run = 0 /\ first_result = NoResult

RunInit == run = 1 /\ first_result = NoResult

\* the first call has ended: its outcome is kept and the call is made
\* again, its locals are new (line 481-486)
RerunSimilar ==
    /\ run = 1 /\ pc \in {"returned", "raised"}
    /\ first_result' =
          [NoResult EXCEPT !.outcome = pc, !.error = error,
                           !.groups = similar_groups,
                           !.ungrouped = not_grouped_indices,
                           !.ssim = ssim_matrix,
                           !.size = size_similarity_matrix]
    /\ run' = 2
    /\ ssim_matrix' = ZeroMatrix(num_images)
    /\ size_similarity_matrix' = ZeroMatrix(num_images)
    /\ already_compared' = {} /\ similar_groups' = <<>>
    /\ current_group' = <<>> /\ not_grouped_indices' = <<>>
    /\ i' = 0 /\ j' = 0 /\ pc' = "diag" /\ error' = "none" /\ computed' = {}
    /\ UNCHANGED <<extVars, szVars, rfVars, fnVars, segVars, images, min_ssim,
                   size_similarity_threshold, short_circuit_ssim, ssim_answers>>

\* refine_masks has returned and is called again on the same list
RerunRefine ==
    /\ run = 1 /\ rf_pc = "returned"
    /\ first_result' = [NoResult EXCEPT !.outcome = rf_pc, !.masks = refined_masks]
    /\ run' = 2
    /\ masks' = input_masks
    /\ filled_masks' = <<>> /\ size_filtered_masks' = <<>>
    /\ refined_masks' = <<>> /\ rf_pc' = "border"
    /\ UNCHANGED <<extVars, simVars, szVars, fnVars, segVars, shape,
                   input_masks>>

RerunNext == SimNext \/ RfNext \/ RerunSimilar \/ RerunRefine

----------------------------------------------------------------------------
(* db.crud: the database lock, a file database.lock that each process      *)
(* looks for and writes.                                                   *)

Procs == 1..MaxProcs

\* the lock file: not there, there and empty, or holding a pid
Absent == <<"absent">>
Empty == <<"empty">>
WrittenBy(p) == <<"pid", p>>

LockIdle == lock_file = Absent /\ lk_pc = [p \in Procs |-> "idle"]

\* no lock file exists and every process is about to call acquire_db_lock
LockInit == lock_file = Absent /\ lk_pc = [p \in Procs |-> "acquire"]

\* db/crud.py line 582-584: the timeout has passed, or has not
LockTimeout(p) ==
    /\ lk_pc[p] = "acquire"
    /\ \E timed_out \in BOOLEAN :
          lk_pc' = [lk_pc EXCEPT ![p] = IF timed_out THEN "False" ELSE "exists"]
    /\ UNCHANGED <<visionVars, lockOthers, lock_file>>

\* line 585-590: os.path.exists; the file is there: sleep and look again;
\* it is not: go on to open it
LockExists(p) ==
    /\ lk_pc[p] = "exists"
    /\ lk_pc' = [lk_pc EXCEPT ![p] = IF lock_file # Absent THEN "acquire"
                                     ELSE "open"]
    /\ UNCHANGED <<visionVars, lockOthers, lock_file>>

\* line 589: open(..., "w") creates the file, or empties the one there
LockOpen(p) ==
    /\ lk_pc[p] = "open"
    /\ lock_file' = Empty
    /\ lk_pc' = [lk_pc EXCEPT ![p] = "write"]
    /\ UNCHANGED <<visionVars, lockOthers>>

\* line 590-593: the pid is written, the file closed, True returned; a
\* file removed since it was opened stays removed
LockWrite(p) ==
    /\ lk_pc[p] = "write"
    /\ lock_file' = IF lock_file = Absent THEN Absent ELSE WrittenBy(p)
    /\ lk_pc' = [lk_pc EXCEPT ![p] = "True"]
    /\ UNCHANGED <<visionVars, lockOthers>>

\* line 597-600: release_db_lock by a process that acquire_db_lock
\* returned True to; os.remove raises FileNotFoundError when the file is
\* gone
ReleaseDbLock(p) ==
    /\ lk_pc[p] = "True"
    /\ IF lock_file = Absent
       THEN /\ lk_pc' = [lk_pc EXCEPT ![p] = "FileNotFoundError"]
            /\ UNCHANGED lock_file
       ELSE /\ lock_file' = Absent
            /\ lk_pc' = [lk_pc EXCEPT ![p] = "released"]
    /\ UNCHANGED <<visionVars, lockOthers>>

\* the process calls acquire_db_lock once more
LockAgain(p) ==
    /\ lk_pc[p] \in {"released", "False"}
    /\ lk_pc' = [lk_pc EXCEPT ![p] = "acquire"]
    /\ UNCHANGED <<visionVars, lockOthers, lock_file>>

LockNext ==
    \E p \in Procs :
        \/ LockTimeout(p) \/ LockExists(p) \/ LockOpen(p) \/ LockWrite(p)
        \/ ReleaseDbLock(p) \/ LockAgain(p)

----------------------------------------------------------------------------
(* db.crud: filter_stop_sequences on the action events of a recording.  An *)
(* event is its name and its key; a mouse event has no key.                *)

\* config.STOP_SEQUENCES, a value of the configuration: one sequence of
\* characters and one of named keys
STOP_SEQUENCES == <<<<"a", "b">>, <<"ctrl", "ctrl">>>>

None == "None"
KeyEvents ==
    [name : {"press", "release"}, canonical_key_char : {"a", "b", "c"},
     canonical_key_name : {None}]
    \cup [name : {"press", "release"}, canonical_key_char : {None},
          canonical_key_name : {"ctrl"}]
ActionEvents ==
    KeyEvents \cup {[name |-> "click", canonical_key_char |-> None,
                     canonical_key_name |-> None]}

Elements(seq) == {seq[k] : k \in 1..Len(seq)}
\* seq[k] as Python reads it, k from 0 and negative k from the end
PyValid(seq, k) == k < Len(seq) /\ k >= 0 - Len(seq)
PyAt(seq, k) == IF k >= 0 THEN seq[k + 1] ELSE seq[Len(seq) + k + 1]

\* line 394-414: the inner loop for one sequence, from the event at place
\* `at` (counted from 1) down; index is stop_sequence_indices[i]
RECURSIVE ScanBack(_, _, _, _, _)
ScanBack(events, seq, at, index, num) ==
    IF at < 1 THEN [index |-> index, num |-> num, error |-> "none"]
    ELSE IF ~PyValid(seq, index)
    THEN [index |-> index, num |-> num, error |-> "IndexError"]
    ELSE IF /\ \/ events[at].canonical_key_char = PyAt(seq, index)
               \/ events[at].canonical_key_name = PyAt(seq, index)
            /\ events[at].name = "press"
    THEN ScanBack(events, seq, at - 1, index - 1, num + 1)
    ELSE IF /\ events[at].name = "release"
            /\ \/ events[at].canonical_key_char \in Elements(seq)
               \/ events[at].canonical_key_name \in Elements(seq)
    THEN ScanBack(events, seq, at - 1, index, num + 1)
    ELSE [index |-> index, num |-> num, error |-> "none"]

\* line 422-425: action_events.pop() num times
PopLast(events, num) ==
    IF num > Len(events)
    THEN [events |-> <<>>, error |-> "IndexError"]
    ELSE [events |-> SubSeq(events, 1, Len(events) - num), error |-> "none"]

\* line 392-425: the sequences in turn; num_to_remove is carried from one
\* sequence to the next
RECURSIVE ScanSequences(_, _, _)
ScanSequences(events, k, num) ==
    IF k > Len(STOP_SEQUENCES) THEN [events |-> events, error |-> "none"]
    ELSE LET scan == ScanBack(events, STOP_SEQUENCES[k], Len(events),
                              Len(STOP_SEQUENCES[k]) - 1, num)
         IN IF scan.error # "none"
            THEN [events |-> events, error |-> scan.error]
            ELSE IF scan.index = -1 THEN PopLast(events, scan.num)
            ELSE ScanSequences(events, k + 1, scan.num)

\* line 370-380: ctrl c first
EndsWithCtrlC(events) ==
    /\ Len(events) >= 2
    /\ events[Len(events)].canonical_key_char = "c"
    /\ events[Len(events) - 1].canonical_key_name = "ctrl"

\* line 360-425
filter_stop_sequences(events) ==
    IF EndsWithCtrlC(events) THEN PopLast(events, 2)
    ELSE ScanSequences(events, 1, 0)

StopIdle == action_events = <<>> /\ recorded_events = <<>> /\ st_pc = "idle"

\* line 354: the events of the recording, as _get returns them
StopInit ==
    /\ \E n \in 0..MaxEvents : recorded_events \in [1..n -> ActionEvents]
    /\ action_events = recorded_events
    /\ st_pc = "call"

\* line 356: filter_stop_sequences(action_events), in place
FilterStopSequences ==
    /\ st_pc = "call"
    /\ action_events' = filter_stop_sequences(action_events).events
    /\ st_pc' = IF filter_stop_sequences(action_events).error = "none"
                THEN "returned"
                ELSE filter_stop_sequences(action_events).error
    /\ UNCHANGED <<visionVars, stopOthers, recorded_events>>

StopNext == FilterStopSequences

----------------------------------------------------------------------------
(* chrome_extension.browser: the message loop of main.  stdin is the       *)
(* sequence of messages the browser sends before it closes the pipe; a     *)
(* message is empty ({}), or one of two payloads.                          *)

Messages == {"{}", "m1", "m2"}
\* line 105: `if message:`
Truthy(msg) == msg # "{}"
Acknowledgement == "Data received and logged successfully!"
ErrorText == "Error sending message to client"

\* an exception of conn.send that leaves send_message_to_client
send_message_to_client_Raises(ok) == IF ok THEN "closed?" ELSE "raised"
\* line 74-77: where main goes on after send_message_to_client: the
\* exception of conn.send is caught there
send_message_to_client(ok) == "closed?"

BrIdle ==
    /\ stdin = <<>> /\ stdin_read = 0 /\ message = "none" /\ stdout = <<>>
    /\ sent = <<>> /\ conn_closed = FALSE /\ br_pc = "idle"

\* line 91-93: the connection is made and the loop entered
BrInit ==
    /\ \E n \in 0..MaxMessages : stdin \in [1..n -> Messages]
    /\ stdin_read = 0 /\ message = "none" /\ stdout = <<>>
    /\ sent = <<>> /\ conn_closed = FALSE /\ br_pc = "closed?"

\* line 94-95: a closed connection is made anew
BrCheckConn ==
    /\ br_pc = "closed?"
    /\ conn_closed' = FALSE
    /\ br_pc' = "get_message"
    /\ UNCHANGED <<visionVars, brOthers, stdin, stdin_read, message, stdout,
                   sent>>

\* line 96, 29-34: get_message; at the end of input sys.exit(0)
BrGetMessage ==
    /\ br_pc = "get_message"
    /\ IF stdin_read = Len(stdin)
       THEN /\ br_pc' = "exited"
            /\ UNCHANGED <<stdin_read, message>>
       ELSE /\ message' = stdin[stdin_read + 1]
            /\ stdin_read' = stdin_read + 1
            /\ br_pc' = "if message"
    /\ UNCHANGED <<visionVars, brOthers, stdin, stdout, sent, conn_closed>>

\* line 104-105
BrIfMessage ==
    /\ br_pc = "if message"
    /\ br_pc' = IF Truthy(message) THEN "send_message" ELSE "closed?"
    /\ UNCHANGED <<visionVars, brOthers, stdin, stdin_read, message, stdout,
                   sent, conn_closed>>

\* line 106-107: the response is written to stdout
BrSendMessage ==
    /\ br_pc = "send_message"
    /\ stdout' = Append(stdout, Acknowledgement)
    /\ br_pc' = "send_message_to_client"
    /\ UNCHANGED <<visionVars, brOthers, stdin, stdin_read, message, sent,
                   conn_closed>>

\* line 108-109, 74-77: conn.send succeeds, or raises; the except clause
\* prints the error, and print writes to stdout
BrSendToClient ==
    /\ br_pc = "send_message_to_client"
    /\ \E ok \in BOOLEAN :
          /\ IF ok
             THEN /\ sent' = Append(sent, message)
                  /\ UNCHANGED <<stdout, conn_closed>>
             ELSE /\ stdout' = Append(stdout, ErrorText)
                  /\ conn_closed' \in BOOLEAN
                  /\ UNCHANGED sent
          /\ br_pc' = send_message_to_client(ok)
    /\ UNCHANGED <<visionVars, brOthers, stdin, stdin_read, message>>

BrNext ==
    \/ BrCheckConn \/ BrGetMessage \/ BrIfMessage \/ BrSendMessage
    \/ BrSendToClient

----------------------------------------------------------------------------
(* openadapt.db.crud._insert and openadapt.crud._insert (the same body; the *)
(* one takes the session as an argument, the other uses the module's db).  *)
(* A table of two columns; event data over the columns and one other key.  *)

BATCH_SIZE == 1
Columns == {"name", "timestamp"}
Keys == Columns \cup {"other"}
EventData == UNION {[S -> {"v"}] : S \in SUBSET Keys}

\* line 55-60: the row, and what is left of event_data after the loop
DbObj(event_data) ==
    [c \in Columns |-> IF c \in DOMAIN event_data THEN event_data[c] ELSE None]
Left(event_data) == [k \in DOMAIN event_data \ Columns |-> event_data[k]]

\* a run that skips the assert statement
AssertNot_Skipped(event_data) == TRUE
\* line 63: assert not event_data
AssertNot(event_data) == DOMAIN event_data = {}

\* line 30-34: the module's buffers are empty lists, no call made
InsIdle == buffer = <<>> /\ executed = <<>> /\ insert_calls = <<>>
InsInit == InsIdle

Outcome(event_data, buffered, outcome) ==
    [event_data |-> event_data, buffered |-> buffered, outcome |-> outcome]

\* line 38-77: one call of _insert, with the module's buffer or with none;
\* session.execute or session.commit may raise
Insert ==
    /\ Len(insert_calls) < MaxCalls
    /\ \E event_data \in EventData, buffered \in BOOLEAN :
          LET db_obj == DbObj(event_data)
              appended == IF buffered THEN Append(buffer, db_obj) ELSE buffer
              to_insert == IF buffered /\ appended # <<>>
                           THEN appended ELSE <<db_obj>>
          IN  IF ~AssertNot(Left(event_data))
              THEN /\ insert_calls' = Append(insert_calls,
                          Outcome(event_data, buffered, "AssertionError"))
                   /\ UNCHANGED <<buffer, executed>>
              ELSE IF ~buffered \/ Len(appended) >= BATCH_SIZE
              THEN /\ executed' = executed \o to_insert
                   /\ \E ok \in BOOLEAN :
                         IF ok
                         THEN /\ buffer' = IF buffered /\ appended # <<>>
                                           THEN <<>> ELSE appended
                              /\ insert_calls' = Append(insert_calls,
                                     Outcome(event_data, buffered, "result"))
                         ELSE /\ buffer' = appended
                              /\ insert_calls' = Append(insert_calls,
                                     Outcome(event_data, buffered, "raised"))
              ELSE /\ buffer' = appended
                   /\ UNCHANGED executed
                   /\ insert_calls' = Append(insert_calls,
                          Outcome(event_data, buffered, "None"))
    /\ UNCHANGED <<visionVars, insOthers>>

InsNext == Insert

----------------------------------------------------------------------------
(* openadapt.adapters.openai: get_response and get_completion.  The API    *)
(* answers a payload with the error "retry your request" api_retries times *)
(* and from then on with api_final: its choices, or another error.         *)

Payloads == {"p1", "p2"}
RetryError == <<"error", "Please retry your request">>
OtherError == <<"error", "invalid request">>
Choices(p) == <<"choices", p>>
Finals(p) == {Choices(p), OtherError}

\* the decorator: a memoization of the function's result, keyed on its
\* arguments
cache(memo, args) == memo[args] # Absent

\* line 94-99: the answer of the API to the payload now
Post(p) == IF api_retries[p] > 0 THEN RetryError ELSE api_final[p]

OaIdle ==
    /\ api_retries = [p \in Payloads |-> 0]
    /\ api_final = [p \in Payloads |-> Choices(p)]
    /\ memory = [p \in Payloads |-> Absent]
    /\ payload = "none" /\ response = Absent /\ depth = 0
    /\ content = "none" /\ prompts = 0 /\ oa_pc = "idle"

OaInit ==
    /\ api_retries \in [Payloads -> 0..MaxRetries]
    /\ \E f \in [Payloads -> BOOLEAN] :
          api_final = [p \in Payloads |->
                          IF f[p] THEN Choices(p) ELSE OtherError]
    /\ memory = [p \in Payloads |-> Absent]
    /\ payload = "none" /\ response = Absent /\ depth = 0
    /\ content = "none" /\ prompts = 0 /\ oa_pc = "prompt"

\* line 132-140: prompt builds a payload and calls get_completion
OaPrompt ==
    /\ oa_pc \in {"prompt", "returned"}
    /\ prompts < MaxPrompts
    /\ prompts' = prompts + 1
    /\ payload' \in Payloads
    /\ depth' = 1
    /\ oa_pc' = "get_response"
    /\ UNCHANGED <<visionVars, oaOthers, api_retries, api_final, memory,
                   response, content>>

\* line 87-99, 104: get_response, through its cache
OaGetResponse ==
    /\ oa_pc = "get_response"
    /\ IF cache(memory, payload)
       THEN /\ response' = memory[payload]
            /\ UNCHANGED <<memory, api_retries>>
       ELSE /\ response' = Post(payload)
            /\ memory' = [memory EXCEPT ![payload] = Post(payload)]
            /\ api_retries' = [api_retries EXCEPT ![payload] =
                                  IF @ > 0 THEN @ - 1 ELSE 0]
    /\ oa_pc' = "result"
    /\ UNCHANGED <<visionVars, oaOthers, api_final, payload, depth, content,
                   prompts>>

\* line 105-122: the error that asks for a retry makes get_completion call
\* itself, one frame deeper; another error stops in the debugger; choices
\* are returned
OaResult ==
    /\ oa_pc = "result"
    /\ IF response = RetryError
       THEN /\ IF depth < RecursionLimit
               THEN depth' = depth + 1 /\ oa_pc' = "get_response"
               ELSE depth' = depth /\ oa_pc' = "RecursionError"
            /\ UNCHANGED content
       ELSE IF response[1] = "error"
       THEN oa_pc' = "ipdb" /\ UNCHANGED <<depth, content>>
       ELSE /\ content' = response[2]
            /\ depth' = 0
            /\ oa_pc' = "returned"
    /\ UNCHANGED <<visionVars, oaOthers, api_retries, api_final, memory,
                   payload, response, prompts>>

OaNext == OaPrompt \/ OaGetResponse \/ OaResult

----------------------------------------------------------------------------
(* Specifications: one per function under study. *)

ExtIdle == LockIdle /\ StopIdle /\ BrIdle /\ InsIdle /\ OaIdle
VisionIdle == SimIdle /\ SzIdle /\ RfIdle /\ FnIdle /\ SegIdle /\ RunIdle

InitSim == SimInit /\ SzIdle /\ RfIdle /\ FnIdle /\ SegIdle /\ RunIdle /\ ExtIdle
SpecSim == InitSim /\ [][SimNext]_vars

SzNext == CallSizeSimilarity

InitSizeSim == SzInit /\ SimIdle /\ RfIdle /\ FnIdle /\ SegIdle /\ RunIdle /\ ExtIdle
SpecSizeSim == InitSizeSim /\ [][SzNext]_vars

InitRefine == RfInit /\ SimIdle /\ SzIdle /\ FnIdle /\ SegIdle /\ RunIdle /\ ExtIdle
SpecRefine == InitRefine /\ [][RfNext]_vars

InitCalls == FnInit /\ SimIdle /\ SzIdle /\ SegIdle /\ RunIdle /\ ExtIdle
SpecCalls == InitCalls /\ [][FnNext]_vars

\* the region functions side by side: the grouping and the mask functions
InitPipeline == InitSim \/ InitCalls
PipelineNext == SimNext \/ FnNext
SpecPipeline == InitPipeline /\ [][PipelineNext]_vars

InitLock ==
    LockInit /\ VisionIdle /\ StopIdle /\ BrIdle /\ InsIdle /\ OaIdle
SpecLock == InitLock /\ [][LockNext]_vars

InitStop ==
    StopInit /\ VisionIdle /\ LockIdle /\ BrIdle /\ InsIdle /\ OaIdle
SpecStop == InitStop /\ [][StopNext]_vars

InitBrowser ==
    BrInit /\ VisionIdle /\ LockIdle /\ StopIdle /\ InsIdle /\ OaIdle
SpecBrowser == InitBrowser /\ [][BrNext]_vars

InitInsert ==
    InsInit /\ VisionIdle /\ LockIdle /\ StopIdle /\ BrIdle /\ OaIdle
SpecInsert == InitInsert /\ [][InsNext]_vars

InitCompletion ==
    OaInit /\ VisionIdle /\ LockIdle /\ StopIdle /\ BrIdle /\ InsIdle
\* a request is answered and the interpreter goes on running
SpecCompletion == InitCompletion /\ [][OaNext]_vars /\ WF_vars(OaNext)

InitSegment == SegInit /\ SimIdle /\ SzIdle /\ RfIdle /\ FnIdle /\ RunIdle /\ ExtIdle
SpecSegment == InitSegment /\ [][SegNext]_vars

----------------------------------------------------------------------------
(* Claims about get_similar_image_idxs (SpecSim) and get_size_similarity   *)
(* (SpecSizeSim).                                                          *)

Terminated == pc \in {"returned", "raised"}
OutOfRange ==
    \/ FLt(min_ssim, F(-1)) \/ FLt(F(1), min_ssim)
    \/ FLt(size_similarity_threshold, F(0))
    \/ FLt(F(1), size_similarity_threshold)
InRange == ~OutOfRange
SizeOf(a, b) == get_size_similarity(images[a + 1], images[b + 1])
InGroup(k, g) == \E p \in 1..Len(g) : g[p] = k
Places(k) ==
    Cardinality({p \in 1..Len(similar_groups) : InGroup(k, similar_groups[p])})
    + Cardinality({p \in 1..Len(not_grouped_indices) : not_grouped_indices[p] = k})

\* C1: when get_similar_image_idxs has returned, every index 0..N-1 is in
\* exactly one returned group or in the ungrouped list, never in both and
\* never in neither.
C1_GroupingInvariant ==
    (pc = "returned" /\ InRange) => \A k \in all_indices : Places(k) = 1

\* the grouping the claim describes: seeds ascending, j joins the seed's
\* group exactly when both tests pass
PassesBoth(a, b) ==
    /\ FGeq(ssim_matrix[a][b], min_ssim)
    /\ FGeq(size_similarity_matrix[a][b], size_similarity_threshold)
RECURSIVE GreedyGroups(_, _)
GreedyGroups(k, assigned) ==
    IF k >= num_images THEN <<>>
    ELSE IF k \in assigned THEN GreedyGroups(k + 1, assigned)
    ELSE LET members == {m \in (k + 1)..(num_images - 1) :
                            m \notin assigned /\ PassesBoth(k, m)}
         IN (IF members = {} THEN <<>> ELSE << <<k>> \o SortedSeq(members) >>)
            \o GreedyGroups(k + 1, assigned \cup members \cup {k})

\* C2: the grouping pass adds j to the seed i's group exactly when
\* ssim_matrix[i][j] >= min_ssim and size_similarity_matrix[i][j] >=
\* size_similarity_threshold, and the call ends by returning those groups.
C2_GroupsAsSpecified ==
    (Terminated /\ InRange) =>
        pc = "returned" /\ similar_groups = GreedyGroups(0, {})

MatricesComplete ==
    \A a, b \in all_indices :
        /\ FEq(size_similarity_matrix[a][b],
               IF a = b THEN F(1) ELSE SizeOf(a, b))
        /\ IF a = b THEN FEq(ssim_matrix[a][b], F(1))
           ELSE IsNaN(ssim_matrix[a][b]) \/ ssim_matrix[a][b] \in SsimValues

\* C3 as claimed: with min_ssim outside [-1, 1] or size_similarity_threshold
\* outside [0, 1] the call ends in a ConfigurationError.
C3_ConfigurationError ==
    (OutOfRange /\ Terminated) => pc = "raised" /\ error = "ConfigurationError"

\* C3 as amended: out-of-range thresholds are not rejected, the call never
\* ends in a ConfigurationError; with min_ssim > 1 no pair passes the SSIM
\* test, the call runs on and returns both matrices complete and no group.
C3_OutOfRangeNotRejected ==
    /\ error # "ConfigurationError"
    /\ FLt(F(1), min_ssim) =>
        /\ pc # "raised"
        /\ pc # "returned" => ENABLED SimNext
        /\ pc = "returned" => MatricesComplete /\ similar_groups = <<>>

C3_Witness ==
    /\ pc = "returned" /\ FLt(F(1), min_ssim) /\ num_images >= 2
    /\ computed # {}

\* C4: in the returned matrices, size_similarity_matrix[a][b] equals
\* size_similarity_matrix[b][a], and ssim_matrix[a][b] equals
\* ssim_matrix[b][a] or both are NaN.
C4_Symmetry ==
    pc = "returned" =>
        \A a, b \in all_indices :
            /\ FEq(size_similarity_matrix[a][b], size_similarity_matrix[b][a])
            /\ \/ FEq(ssim_matrix[a][b], ssim_matrix[b][a])
               \/ IsNaN(ssim_matrix[a][b]) /\ IsNaN(ssim_matrix[b][a])

C4_Witness ==
    /\ pc = "returned" /\ num_images >= 3
    /\ \E a, b \in all_indices : a < b /\ IsNaN(ssim_matrix[b][a])
    /\ \E a, b \in all_indices :
          a < b /\ <<a, b>> \in computed /\ images[a + 1] # images[b + 1]

\* C5: in the returned matrices the diagonal of both matrices is 1.0,
\* whatever the thresholds and short_circuit_ssim.
C5_Diagonal ==
    pc = "returned" =>
        \A a \in all_indices :
            /\ FEq(ssim_matrix[a][a], F(1))
            /\ FEq(size_similarity_matrix[a][a], F(1))

C5_Witness ==
    /\ pc = "returned" /\ num_images >= 2 /\ ~short_circuit_ssim
    /\ OutOfRange

Skipped(a, b) ==
    short_circuit_ssim /\ FLt(SizeOf(a, b), size_similarity_threshold)

C6_Entries ==
    pc \in {"seed", "scan", "returned", "raised"} =>
        \A a, b \in all_indices :
            a < b =>
                /\ IsNaN(ssim_matrix[a][b]) <=> Skipped(a, b)
                /\ IsNaN(ssim_matrix[b][a]) <=> Skipped(a, b)
                /\ <<a, b>> \in computed <=> ~Skipped(a, b)

C6_NaNNeverPasses ==
    (pc = "scan" /\ j < num_images /\ IsNaN(ssim_matrix[i][j])) =>
        /\ pc' = "scan" /\ error' = error
        /\ current_group' = current_group
        /\ already_compared' = already_compared

\* C6: for a # b the SSIM entry is NaN exactly when short_circuit_ssim holds
\* and the pair's size similarity is below size_similarity_threshold, SSIM
\* is computed for every other pair, and a step of the grouping pass over a
\* NaN entry neither adds j to the group nor marks it.
C6_ShortCircuit == []C6_Entries /\ [][C6_NaNNeverPasses]_vars

C6_Witness ==
    /\ pc = "returned" /\ num_images >= 3
    /\ IsNaN(ssim_matrix[0][1]) /\ <<0, 2>> \in computed

IMin(x, y) == IF x <= y THEN x ELSE y
IMax(x, y) == IF x <= y THEN y ELSE x
SizeSimilarityFormula(a, b) ==
    FHalf(FAdd(FDiv(IMin(a[1], b[1]), IMax(a[1], b[1])),
               FDiv(IMin(a[2], b[2]), IMax(a[2], b[2]))))

\* C7: get_size_similarity(A, B) is (min(wA,wB)/max(wA,wB) +
\* min(hA,hB)/max(hA,hB)) / 2, the same for (B, A), within [0, 1], and 1.0
\* exactly when A and B have the same width and height.
C7_SizeSimilarity ==
    sz_pc = "done" =>
        /\ FEq(size_sim, SizeSimilarityFormula(img1, img2))
        /\ FEq(size_sim, get_size_similarity(img2, img1))
        /\ FGeq(size_sim, F(0)) /\ FGeq(F(1), size_sim)
        /\ FEq(size_sim, F(1)) <=> img1 = img2

C7_Witness ==
    /\ sz_pc = "done" /\ img1[1] > img2[1] /\ img1[2] < img2[2]
    /\ FLt(size_sim, F(1))

----------------------------------------------------------------------------
(* Claims about refine_masks (SpecRefine). *)

StrictSubset(a, b) == a \subseteq b /\ a # b
Returned(m) == \E k \in 1..Len(refined_masks) : refined_masks[k] = m

\* C8: every mask refine_masks returns has a bounding box, measured as
\* calculate_bounding_boxes measures it (height = max_row - min_row, width =
\* max_col - min_col), of at least the minimum height and width.
C8_SizeInvariant ==
    rf_pc = "returned" =>
        \A k \in 1..Len(refined_masks) :
            /\ refined_masks[k] # {}
            /\ BoundingBox(refined_masks[k]).height >= min_mask_height
            /\ BoundingBox(refined_masks[k]).width >= min_mask_width

\* C9: no mask refine_masks returns is a strict pixel-subset of another
\* mask it returns.
C9_NoStrictSubset ==
    rf_pc = "returned" =>
        \A a, b \in 1..Len(refined_masks) :
            ~StrictSubset(refined_masks[a], refined_masks[b])

C9_Witness ==
    /\ rf_pc = "returned" /\ Len(refined_masks) >= 1
    /\ \E a, b \in 1..Len(size_filtered_masks) :
          /\ StrictSubset(size_filtered_masks[a], size_filtered_masks[b])
          /\ ~Returned(size_filtered_masks[a])
          /\ Returned(size_filtered_masks[b])
          \* the holder is a mask whose hole was filled
          /\ \A k \in 1..Len(input_masks) :
                input_masks[k] # size_filtered_masks[b]

BorderRows == (shape[1] * threshold_percent) \div 100
BorderCols == (shape[2] * threshold_percent) \div 100
NearTop(m) == \E p \in m : p[1] < BorderRows
NearBottom(m) == \E p \in m : p[1] >= shape[1] - BorderRows
NearLeft(m) == \E p \in m : p[2] < BorderCols
NearRight(m) == \E p \in m : p[2] >= shape[2] - BorderCols
NearAllBorders(m) == NearTop(m) /\ NearBottom(m) /\ NearLeft(m) /\ NearRight(m)
IsInput(m) == \E k \in 1..Len(input_masks) : input_masks[k] = m

----------------------------------------------------------------------------
(* Claims on the mask functions called on their own. *)

Opening(m) == Dilate(Erode(m, iterations), iterations)
SurvivesErosion(m) == Erode(m, iterations) # {}

\* C12: filter_thin_ragged_masks eliminates thin masks: a mask the erosion
\* erases entirely is absent from the output, and the output holds exactly
\* the surviving masks, each as its dilated reconstruction.
C12_ThinMasksAbsent ==
    (fn_pc = "filter_thin_ragged_masks"
        /\ \A k \in 1..Len(input_masks) : input_masks[k] # {}) =>
        LET survivors == SelectSeq(input_masks, SurvivesErosion)
        IN masks = [k \in 1..Len(survivors) |-> Opening(survivors[k])]

\* a mask that no stage of refine_masks lets through
FilteredOut(m) ==
    \/ is_close_to_all_borders(m)
    \/ ~ExtentOk(binary_fill_holes(Opening(m)))

\* C13: remove_border_masks, filter_thin_ragged_masks, filter_masks_by_size
\* and refine_masks each return a list no longer than their input, and
\* refine_masks returns the empty list when every mask is filtered out.
C13_NeverLonger ==
    /\ fn_pc \in {"remove_border_masks", "filter_thin_ragged_masks",
                  "filter_masks_by_size"} =>
           Len(masks) <= Len(input_masks)
    /\ fn_pc = "refine_masks" =>
           /\ Len(refined_masks) <= Len(input_masks)
           /\ (\A k \in 1..Len(input_masks) : FilteredOut(input_masks[k])) =>
                  refined_masks = <<>>

C13_Witness ==
    /\ fn_pc = "refine_masks" /\ Len(input_masks) >= 2
    /\ \A k \in 1..Len(input_masks) :
          input_masks[k] # {} /\ FilteredOut(input_masks[k])
    /\ \E k \in 1..Len(input_masks) : ~is_close_to_all_borders(input_masks[k])
    /\ refined_masks = <<>>

----------------------------------------------------------------------------
(* Claims on get_masks_from_segmented_image. *)

\* the colour of a pixel of the image given, its alpha left aside
RGB(p) == SubSeq(segmented_image.px[p], 1, 3)
AllPixels == SegPixels(segmented_image)
PixelsOf(c) == {p \in AllPixels : RGB(p) = c}

\* C14: for an image of 3 or 4 channels there is exactly one mask per
\* distinct RGB colour, alpha ignored, true exactly at the pixels of that
\* colour; every pixel is on in exactly one mask; regions of one colour
\* that do not touch share a mask, and an image of one colour yields one
\* mask that is true everywhere.
C14_OneMaskPerColour ==
    seg_pc = "returned" =>
        /\ Len(seg_masks) = Cardinality({RGB(p) : p \in AllPixels})
        /\ \A p \in AllPixels :
              /\ \E k \in 1..Len(seg_masks) : seg_masks[k] = PixelsOf(RGB(p))
              /\ Cardinality({k \in 1..Len(seg_masks) : p \in seg_masks[k]}) = 1
        /\ \A k \in 1..Len(seg_masks) :
              \E p \in AllPixels : seg_masks[k] = PixelsOf(RGB(p))
        /\ (\A p, q \in AllPixels : RGB(p) = RGB(q)) => seg_masks = <<AllPixels>>

\* four channels, two pixels of one colour that differ in alpha and do not
\* touch, and a second colour between them
C14_Witness ==
    /\ seg_pc = "returned"
    /\ segmented_image.shape = <<1, 3, 4>>
    /\ RGB(<<0, 0>>) = RGB(<<0, 2>>) /\ RGB(<<0, 1>>) # RGB(<<0, 0>>)
    /\ segmented_image.px[<<0, 0>>] # segmented_image.px[<<0, 2>>]
    /\ Len(seg_masks) = 2
    /\ \E k \in 1..2 : seg_masks[k] = {<<0, 0>>, <<0, 2>>}

----------------------------------------------------------------------------
(* Claims on calculate_bounding_boxes. *)

Least(S, x) == x \in S /\ \A y \in S : x <= y
Greatest(S, x) == x \in S /\ \A y \in S : x >= y

\* C15: for every mask with on pixels, calculate_bounding_boxes returns
\* top = the least on row, left = the least on column, height = greatest
\* row - least row and width = greatest column - least column (no + 1),
\* and the centroid (left + width / 2, top + height / 2).
C15_BoundingBox ==
    fn_pc = "calculate_bounding_boxes" =>
        \A k \in 1..Len(input_masks) : input_masks[k] # {} =>
            \E rlo \in OnRows(input_masks[k]) :
              Least(OnRows(input_masks[k]), rlo) /\
              \E rhi \in OnRows(input_masks[k]) :
              Greatest(OnRows(input_masks[k]), rhi) /\
              \E clo \in OnCols(input_masks[k]) :
              Least(OnCols(input_masks[k]), clo) /\
              \E chi \in OnCols(input_masks[k]) :
                /\ Greatest(OnCols(input_masks[k]), chi)
                /\ FEq(bounding_boxes[k].top, F(rlo))
                /\ FEq(bounding_boxes[k].left, F(clo))
                /\ FEq(bounding_boxes[k].height, F(rhi - rlo))
                /\ FEq(bounding_boxes[k].width, F(chi - clo))
                /\ FEq(centroids[k][1], FDiv(2 * clo + (chi - clo), 2))
                /\ FEq(centroids[k][2], FDiv(2 * rlo + (rhi - rlo), 2))

\* a mask of 14 rows and 18 columns: height 13, centre row 11.5
C15_Witness ==
    /\ fn_pc = "calculate_bounding_boxes"
    /\ \E k \in 1..Len(input_masks) :
          /\ input_masks[k] = Rect(5, 5, 14, 18)
          /\ FEq(bounding_boxes[k].height, F(13))
          /\ FEq(bounding_boxes[k].width, F(17))
          /\ FEq(centroids[k][2], FDiv(23, 2))

\* C16: a mask with no on pixel never makes calculate_bounding_boxes raise:
\* it yields an empty bounding box and a (NaN, NaN) centroid at its
\* position, so both lists are as long as the input list and stay aligned
\* with it by index.
C16_EmptyMaskSentinel ==
    /\ fn_pc = "call" => ENABLED CallCalculateBoundingBoxes
    /\ fn_pc = "calculate_bounding_boxes" =>
           /\ Len(bounding_boxes) = Len(input_masks)
           /\ Len(centroids) = Len(input_masks)
           /\ \A k \in 1..Len(input_masks) :
                 IF input_masks[k] = {}
                 THEN /\ DOMAIN bounding_boxes[k] = {}
                      /\ IsNaN(centroids[k][1]) /\ IsNaN(centroids[k][2])
                 ELSE /\ DOMAIN bounding_boxes[k] # {}
                      /\ FEq(bounding_boxes[k].top,
                             F(SetMin(OnRows(input_masks[k]))))
                      /\ ~IsNaN(centroids[k][1]) /\ ~IsNaN(centroids[k][2])

C16_Witness ==
    /\ fn_pc = "calculate_bounding_boxes"
    /\ Len(input_masks) = 2 /\ input_masks[1] = {} /\ input_masks[2] # {}
    /\ DOMAIN bounding_boxes[1] = {} /\ DOMAIN bounding_boxes[2] # {}
    /\ IsNaN(centroids[1][1]) /\ ~IsNaN(centroids[2][1])

----------------------------------------------------------------------------
(* Claims on extract_masked_images. *)

\* the image at position k is the crop of mask k to rows rlo..rhi and
\* columns clo..chi: zero off the mask, the original pixel on it
IsMaskedCrop(k, rlo, rhi, clo, chi) ==
    /\ masked_images[k].rows = rhi - rlo + 1
    /\ masked_images[k].cols = chi - clo + 1
    /\ DOMAIN masked_images[k].px = (0..(rhi - rlo)) \X (0..(chi - clo))
    /\ \A q \in DOMAIN masked_images[k].px :
          masked_images[k].px[q] =
              IF <<q[1] + rlo, q[2] + clo>> \in input_masks[k]
              THEN OriginalPixel(original_image, <<q[1] + rlo, q[2] + clo>>)
              ELSE 0

----------------------------------------------------------------------------
(* Claims on the functions given no region at all. *)

\* C18: zero regions are handled without error along the pipeline: given
\* the empty list, extract_masked_images returns the empty list,
\* calculate_bounding_boxes returns two empty lists, and
\* get_similar_image_idxs returns no group, no ungrouped index and empty
\* matrices.
C18_ZeroRegions ==
    /\ (fn_pc \notin {"idle", "call"} /\ input_masks = <<>>) =>
           /\ fn_pc # "extract_masked_images: IndexError"
           /\ masked_images = <<>>
           /\ bounding_boxes = <<>> /\ centroids = <<>>
    /\ (pc # "idle" /\ images = <<>>) =>
           /\ pc # "raised"
           /\ pc # "returned" => ENABLED SimNext
           /\ similar_groups = <<>> /\ not_grouped_indices = <<>>
           /\ DOMAIN ssim_matrix = {} /\ DOMAIN size_similarity_matrix = {}

C18_Witness ==
    /\ pc = "returned" /\ images = <<>>
    /\ similar_groups = <<>> /\ not_grouped_indices = <<>>
    /\ DOMAIN ssim_matrix = {} /\ DOMAIN size_similarity_matrix = {}

\* the other two cases of C18, reached as well
C18_ExtractedNone ==
    /\ fn_pc = "extract_masked_images" /\ input_masks = <<>>
    /\ masked_images = <<>>

C18_BoxedNone ==
    /\ fn_pc = "calculate_bounding_boxes" /\ input_masks = <<>>
    /\ bounding_boxes = <<>> /\ centroids = <<>>

----------------------------------------------------------------------------
(* Claims on the groups get_similar_image_idxs returns. *)

Members(g) == {g[p] : p \in 1..Len(g)}

C20_StarClustering ==
    (Terminated /\ InRange) =>
        \A b, c \in all_indices :
            (0 < b /\ b < c /\ PassesBoth(0, b) /\ PassesBoth(0, c)
                /\ ~PassesBoth(b, c)) =>
                /\ pc = "returned"
                /\ \E p \in 1..Len(similar_groups) :
                      {0, b, c} \subseteq Members(similar_groups[p])

----------------------------------------------------------------------------
(* Claims on a second run. *)

\* the configurations run twice are those within the documented ranges
InitRerun ==
    /\ RunInit /\ SzIdle /\ FnIdle /\ SegIdle /\ ExtIdle
    /\ (SimInit /\ InRange /\ RfIdle) \/ (RfInit /\ SimIdle)
SpecRerun == InitRerun /\ [][RerunNext]_vars

C21_RaisedTwice == run = 2 /\ pc = "raised" /\ first_result.outcome = "raised"
C21_RefinedTwice ==
    run = 2 /\ rf_pc = "returned" /\ Len(input_masks) = 2 /\ refined_masks # <<>>

----------------------------------------------------------------------------
(* Claims on the order and the reach of the grouping. *)

GroupOf(k) == {p \in 1..Len(similar_groups) : k \in Members(similar_groups[p])}

Differ(m, n) == {c \in all_indices \X all_indices : m[c[1]][c[2]] # n[c[1]][c[2]]}
InGrouping == pc \in {"seed", "scan", "returned", "raised"}

\* what the two matrices hold for each pair, said without the order of the
\* loops: the size similarity of the two images, and the score
\* get_image_similarity gave for them or NaN when it was not asked
C23_MatricesOfPairs ==
    InGrouping =>
        \A a, b \in all_indices : a < b =>
            /\ FEq(size_similarity_matrix[a][b], SizeOf(a, b))
            /\ size_similarity_matrix[b][a] = size_similarity_matrix[a][b]
            /\ IF ShouldCompute(SizeOf(a, b))
               THEN /\ <<a, b, ssim_matrix[a][b]>> \in ssim_answers
                    /\ ssim_matrix[b][a] = ssim_matrix[a][b]
               ELSE IsNaN(ssim_matrix[a][b]) /\ IsNaN(ssim_matrix[b][a])

\* a step on the pair (i, j) writes the cells [i][j] and [j][i] and no
\* other, and the cell was not written before: its size similarity, which
\* is positive once written, is still 0.0
C23_PairWrites ==
    (pc = "pair" /\ j < num_images) =>
        /\ i < j
        /\ FEq(size_similarity_matrix[i][j], F(0))
        /\ FEq(size_similarity_matrix[j][i], F(0))
        /\ Differ(ssim_matrix, ssim_matrix') \subseteq {<<i, j>>, <<j, i>>}
        /\ Differ(size_similarity_matrix, size_similarity_matrix')
              = {<<i, j>>, <<j, i>>}

\* the grouping pass writes no cell
C23_GroupingReadsOnly ==
    InGrouping =>
        /\ ssim_matrix' = ssim_matrix
        /\ size_similarity_matrix' = size_similarity_matrix

----------------------------------------------------------------------------
(* Claims on the border threshold. *)

\* C25: when the border threshold truncates to zero pixels in a dimension,
\* remove_border_masks removes no mask, a mask that covers the whole image
\* included: the output is the input list.
C25_ZeroThreshold ==
    (fn_pc = "remove_border_masks" /\ (BorderRows = 0 \/ BorderCols = 0)) =>
        masks = input_masks

\* 16 rows give a threshold of 0 rows, 25 columns one of 1 column
C25_Witness ==
    /\ fn_pc = "remove_border_masks" /\ BorderRows = 0 /\ BorderCols > 0
    /\ \E k \in 1..Len(input_masks) : input_masks[k] = Rows \X Cols
    /\ masks = input_masks

\* the same with both thresholds 0, reached as well
C25_BothZero ==
    /\ fn_pc = "remove_border_masks" /\ BorderRows = 0 /\ BorderCols = 0
    /\ \E k \in 1..Len(input_masks) : input_masks[k] = Rows \X Cols
    /\ masks = input_masks

----------------------------------------------------------------------------
(* Claims on the database lock. *)

Holders == {p \in Procs : lk_pc[p] = "True"}

\* C26: of the processes that call acquire_db_lock while no lock file
\* exists, at most one has been returned True and has not yet called
\* release_db_lock: the lock is never held by two processes at a time.
C26_MutualExclusion == Cardinality(Holders) <= 1

----------------------------------------------------------------------------
(* Claims on filter_stop_sequences. *)

Key(e) ==
    IF e.canonical_key_char # None THEN e.canonical_key_char
    ELSE e.canonical_key_name
IsPress(e) == e.name = "press"

\* the events from place k on are the stop sequence seq: their presses
\* spell it, starting at k, and the rest are releases of its keys
IsStopSuffix(events, k, seq) ==
    LET tail == SubSeq(events, k, Len(events))
        presses == SelectSeq(tail, IsPress)
    IN /\ IsPress(events[k])
       /\ [x \in 1..Len(presses) |-> Key(presses[x])] = seq
       /\ \A x \in 1..Len(tail) :
             ~IsPress(tail[x]) =>
                 tail[x].name = "release" /\ Key(tail[x]) \in Elements(seq)

StopSuffixes(events) ==
    {k \in 1..Len(events) :
        \E s \in 1..Len(STOP_SEQUENCES) :
            IsStopSuffix(events, k, STOP_SEQUENCES[s])}

\* C27: when the action events end with a stop sequence of STOP_SEQUENCES,
\* or with ctrl followed by c, filter_stop_sequences removes exactly the
\* trailing events of that sequence (its presses and their releases) and
\* no event before it; when they end with no stop sequence the list is
\* left unchanged.
C27_StopSequenceRemoved ==
    st_pc \notin {"idle", "call"} =>
        /\ st_pc = "returned"
        /\ IF EndsWithCtrlC(recorded_events)
           THEN action_events =
                    SubSeq(recorded_events, 1, Len(recorded_events) - 2)
           ELSE IF StopSuffixes(recorded_events) # {}
           THEN \E k \in StopSuffixes(recorded_events) :
                    action_events = SubSeq(recorded_events, 1, k - 1)
           ELSE action_events = recorded_events

----------------------------------------------------------------------------
(* Claims on the message loop of the browser extension. *)

Count(seq, x) == Cardinality({k \in 1..Len(seq) : seq[k] = x})
\* the messages read so far that are not empty
ReadNonEmpty == SelectSeq(SubSeq(stdin, 1, stdin_read), Truthy)

\* every message read that is not empty has one acknowledgement on stdout,
\* none is written for another reason, and the loop has ended only at the
\* end of input
C28_OneAckEach ==
    /\ br_pc \in {"closed?", "get_message", "exited", "send_message_to_client"}
          => Count(stdout, Acknowledgement) = Len(ReadNonEmpty)
    /\ br_pc = "send_message" =>
          /\ Truthy(message)
          /\ Count(stdout, Acknowledgement) = Len(ReadNonEmpty) - 1
    /\ br_pc \notin {"idle", "closed?", "get_message", "if message",
                     "send_message", "send_message_to_client"} =>
          br_pc = "exited" /\ stdin_read = Len(stdin)

\* a message is handed to conn.send only after its acknowledgement is on
\* stdout, and whether conn.send raises or not the loop goes on
C28_AckBeforeForward ==
    (sent' # sent \/ Count(stdout', ErrorText) # Count(stdout, ErrorText)) =>
        /\ Count(stdout, Acknowledgement) = Len(ReadNonEmpty)
        /\ stdout[Len(stdout)] = Acknowledgement
        /\ br_pc' = "closed?"

\* C28: in the message loop every non-empty message read from stdin gets
\* exactly one acknowledgement on stdout, written before the message is
\* forwarded to the socket client; a failure while forwarding is swallowed
\* and does not stop the loop, which ends only at the end of input.
C28_MessageLoop == []C28_OneAckEach /\ [][C28_AckBeforeForward]_vars

\* the end of input after three messages: an empty one, one whose
\* forwarding failed and one forwarded
C28_Witness ==
    /\ br_pc = "exited" /\ Len(stdin) = 3
    /\ Count(stdin, "{}") = 1
    /\ Count(stdout, Acknowledgement) = 2 /\ Count(stdout, ErrorText) = 1
    /\ Len(sent) = 1

----------------------------------------------------------------------------
(* Claims on _insert. *)

ReturnedNormally(call) == call.outcome \in {"result", "None"}
NoneRaised == \A k \in 1..Len(insert_calls) :
                 insert_calls[k].outcome # "raised"
\* the rows of the calls that returned, in call order
RowsReturned ==
    LET normal == SelectSeq(insert_calls, ReturnedNormally)
    IN  [k \in 1..Len(normal) |-> DbObj(normal[k].event_data)]

\* a call whose event_data holds a key that is no column fails its
\* assertion, and only such a call does
C29_AssertionOnOtherKeys ==
    \A k \in 1..Len(insert_calls) :
        insert_calls[k].outcome = "AssertionError"
            <=> ~(DOMAIN insert_calls[k].event_data \subseteq Columns)

\* while session.execute has not raised: the buffer is empty after every
\* call and the rows passed to session.execute are the rows of the calls
\* that returned, each once, in call order
C29_EveryRowOnce ==
    NoneRaised => buffer = <<>> /\ executed = RowsReturned

\* the call that fails its assertion leaves the buffer and the session alone
C29_NothingOnFailure ==
    (/\ insert_calls' # insert_calls
     /\ insert_calls'[Len(insert_calls')].outcome = "AssertionError")
        => buffer' = buffer /\ executed' = executed

\* C29: _insert saves all event data or nothing: with a key that is not a
\* column the assertion fails before anything is appended to the buffer or
\* sent to the session; otherwise, after calls that return normally, the
\* buffer is empty and every row was passed to session.execute exactly
\* once, in call order.
C29_AllOrNothing ==
    /\ [](C29_AssertionOnOtherKeys /\ C29_EveryRowOnce)
    /\ [][C29_NothingOnFailure]_vars

\* three calls: a buffered row, a failed assertion, a row without buffer
C29_Witness ==
    /\ Len(insert_calls) = 3
    /\ insert_calls[1].outcome = "result" /\ insert_calls[1].buffered
    /\ insert_calls[2].outcome = "AssertionError"
    /\ insert_calls[3].outcome = "result" /\ ~insert_calls[3].buffered
    /\ insert_calls[1].event_data # insert_calls[3].event_data
    /\ Len(executed) = 2

----------------------------------------------------------------------------
(* Claims on get_completion. *)

\* the API would answer the payload of the call in progress with choices
WouldAnswer ==
    /\ oa_pc \in {"get_response", "result"}
    /\ Post(payload) = Choices(payload)

\* C30: get_completion terminates: once the API would answer the payload
\* without an error, the call returns the content of the first choice; it
\* is not held by the error response that get_response has cached.
C30_Terminates == WouldAnswer ~> (oa_pc = "returned" /\ content = payload)
====
